---- MODULE Spec2Model ----
(***************************************************************************)
(* Model of the padel-notifier availability tracker:                       *)
(*   src/src/court_checker.py  CourtChecker (state store, date registry,   *)
(*                             check_all_dates, check_availability)        *)
(*   src/src/main.py           check_and_notify, a checker per cycle       *)
(*   src/main.py               main and check_and_notify, one checker      *)
(*                                                                         *)
(* Encoding of the data                                                    *)
(*   date           an ISO date "YYYY-MM-DD" as the integer YYYYMMDD, so   *)
(*                  that < on integers is the string order the code uses   *)
(*   state key      "time|date" as the pair <<time, date>>; a key without  *)
(*                  the '|' separator as the 1-tuple <<time>>              *)
(*   court mapping  {"Padel 1": s1, ..., "Padel n": sn} as <<s1,...,sn>>   *)
(*   a file         [kind, doc]: kind is "absent", "empty" (zero bytes),   *)
(*                  "garbage" (bytes that are no JSON), "object" or        *)
(*                  "array" (a JSON document); doc is the set of members   *)
(*                  <<name, value>> of a JSON object                       *)
(*   a Python value [shape, map]: shape "dict" with its mapping, or "list" *)
(***************************************************************************)
EXTENDS Integers, Sequences, FiniteSets, TLC

\* Largest number of court cells (td) in a time row of the planning table.
MaxCourts == 1

\* The time rows (th) of the planning table, in page order.
PageTimes == <<"10H00", "11H00">>

Dates == {20250131, 20250201}

Statuses == {"libre", "occupé"}

\* A row of the planning table: the statuses of its court cells, left to right.
Rows == UNION {[1..n -> Statuses] : n \in 0..MaxCourts}

-----------------------------------------------------------------------------
(* Files and JSON *)

AbsentFile == [kind |-> "absent", doc |-> {}]

EmptyFile == [kind |-> "empty", doc |-> {}]

GarbageFile == [kind |-> "garbage", doc |-> {}]

ArrayFile == [kind |-> "array", doc |-> {}]

exists(file) == file.kind # "absent"

PyDict(m) == [shape |-> "dict", map |-> m]

PyList == [shape |-> "list", map |-> <<>>]

EmptyDict == PyDict(<<>>)

\* json.dump(d, f): one member per key of the dict.
json_dump(d) == [kind |-> "object", doc |-> {<<k, d[k]>> : k \in DOMAIN d}]

\* json.load(f) / json.loads(content): the parsed value, or JSONDecodeError.
json_load(file) ==
    CASE file.kind = "object" ->
            [raised |-> FALSE,
             value |-> PyDict([k \in {e[1] : e \in file.doc} |->
                                 (CHOOSE e \in file.doc : e[1] = k)[2]])]
      [] file.kind = "array" -> [raised |-> FALSE, value |-> PyList]
      [] OTHER -> [raised |-> TRUE, value |-> EmptyDict]

\* What a write that did not complete leaves in a file opened with 'w'.
PartialWrites == {EmptyFile, GarbageFile}

-----------------------------------------------------------------------------
(* State keys *)

StateKey(time, date) == <<time, date>>

HasSeparator(k) == Len(k) = 2

KeyTime(k) == k[1]

KeyDate(k) == k[2]

CourtName(i) == <<"Padel", i>>

-----------------------------------------------------------------------------
(* Persisted state store *)

\* _ensure_files_exist, for one of the two files.
_ensure_file_exists(file) ==
    IF ~exists(file) THEN json_dump(<<>>)
    ELSE IF file.kind = "empty" THEN file
    ELSE IF json_load(file).raised THEN json_dump(<<>>)
    ELSE file

\* _ensure_files_exist has to write the file: it is missing, or its bytes do
\* not parse (lines 73-76 and 84-87).
needs_rewrite(file) == _ensure_file_exists(file) # file

\* The outcomes of _ensure_files_exist, which has no try around its writes:
\* it returns, or the open(.., 'w') or the json.dump of one of the two files
\* raises and the exception leaves the constructor of CourtChecker.
EnsureFailures == {"state_open_raises", "state_dump_raises",
                   "dates_open_raises", "dates_dump_raises"}

EnsureOutcomes == {"ok"} \cup EnsureFailures

\* The step that raises is executed: the file it writes has to be written.
ensure_runs(state, dates, outcome) ==
    IF outcome \in {"state_open_raises", "state_dump_raises"} THEN needs_rewrite(state)
    ELSE IF outcome \in {"dates_open_raises", "dates_dump_raises"} THEN needs_rewrite(dates)
    ELSE TRUE

\* _ensure_files_exist on the two files (lines 70-104): the state file first,
\* then the registry. An open that raises leaves its file as it was, a dump
\* that raises leaves it truncated; the file after it is not looked at.
_ensure_files_exist(state, dates, outcome) ==
    CASE outcome = "state_open_raises" ->
            [state |-> state, dates |-> dates, raised |-> TRUE]
      [] outcome = "state_dump_raises" ->
            [state |-> EmptyFile, dates |-> dates, raised |-> TRUE]
      [] outcome = "dates_open_raises" ->
            [state |-> _ensure_file_exists(state), dates |-> dates, raised |-> TRUE]
      [] outcome = "dates_dump_raises" ->
            [state |-> _ensure_file_exists(state), dates |-> EmptyFile, raised |-> TRUE]
      [] OTHER ->
            [state |-> _ensure_file_exists(state),
             dates |-> _ensure_file_exists(dates), raised |-> FALSE]

\* _load_states without its except clause: a decoding error reaches the caller.
_load_states_uncaught(file) ==
    IF exists(file) THEN json_load(file)
    ELSE [raised |-> FALSE, value |-> EmptyDict]

\* _load_states: the value returned, and whether an exception reaches the caller.
_load_states(file) ==
    LET r == IF exists(file) THEN json_load(file)
             ELSE [raised |-> FALSE, value |-> EmptyDict]
    IN  IF r.raised THEN [raised |-> FALSE, value |-> EmptyDict] ELSE r

\* A retention test that keeps the keys of every date.
is_kept_always(k, today) == TRUE

\* The retention test of _save_states on a key that has a separator.
is_retained(k, today) == KeyDate(k) >= today

\* A merge that keeps the row already stored under the key.
merge_keeping_stored(m, state_key, states) ==
    [k \in DOMAIN m \cup {state_key} |-> IF k \in DOMAIN m THEN m[k] ELSE states]

\* A merge that stores the new row under every key.
merge_overwriting(m, state_key, states) ==
    [k \in DOMAIN m \cup {state_key} |-> states]

\* A merge court by court: the courts of the stored row that the new row
\* lacks are kept.
merge_courts(m, state_key, states) ==
    [k \in DOMAIN m \cup {state_key} |->
        IF k # state_key THEN m[k]
        ELSE IF k \in DOMAIN m /\ Len(m[k]) > Len(states)
        THEN [i \in DOMAIN m[k] |-> IF i \in DOMAIN states THEN states[i] ELSE m[k][i]]
        ELSE states]

merge_update(m, state_key, states) ==
    [k \in DOMAIN m \cup {state_key} |-> IF k = state_key THEN states ELSE m[k]]

\* _save_states, the in-memory part (lines 133-145): the new previous_states.
\* On a list the item assignment raises, and nothing has been changed.
merge_and_prune(prev, states, state_key, today) ==
    IF prev.shape # "dict" THEN [raised |-> TRUE, value |-> prev]
    ELSE LET merged == merge_update(prev.map, state_key, states)
             keys == {k \in DOMAIN merged : HasSeparator(k)}
             kept == {k \in keys : is_retained(k, today)}
         IN  [raised |-> FALSE, value |-> PyDict([k \in kept |-> merged[k]])]

\* The points of the file part of _save_states (lines 148-156) at which an
\* exception can be raised, and "ok".
SaveOutcomes == {"ok", "replace_fails", "open_fails", "write_fails", "remove_fails"}

\* The except clause of _save_states (lines 160-162): the backup, when there
\* is one, is moved back. `restore` is FALSE when this os.replace raises as
\* well: the files stay as they are and the exception leaves the function.
restore_backup(file, bak, restore) ==
    IF ~exists(bak) THEN [file |-> file, bak |-> bak, raised |-> FALSE]
    ELSE IF restore THEN [file |-> bak, bak |-> AbsentFile, raised |-> FALSE]
    ELSE [file |-> file, bak |-> bak, raised |-> TRUE]

\* Whether the step of lines 148-156 that `outcome` names is executed: the
\* replace only when the file exists, the remove only when a backup does.
step_runs(file, bak, outcome) ==
    CASE outcome = "replace_fails" -> exists(file)
      [] outcome = "remove_fails" -> exists(file) \/ exists(bak)
      [] OTHER -> TRUE

\* A save whose successful write leaves an empty object in the file.
save_files_truncating(file, bak, content, outcome, partial, restore) ==
    IF outcome = "ok" \/ ~step_runs(file, bak, outcome)
    THEN [file |-> json_dump(<<>>), bak |-> AbsentFile, raised |-> FALSE]
    ELSE restore_backup(file, bak, restore)

\* The files after lines 148-162 of _save_states writing `content`, when the
\* step named by `outcome` raises; `partial` is what a failed write leaves.
save_files(file, bak, content, outcome, partial, restore) ==
    LET moved == IF exists(file) THEN [file |-> AbsentFile, bak |-> file]
                 ELSE [file |-> file, bak |-> bak]
        written == [file |-> content, bak |-> moved.bak]
        done == [file |-> written.file, bak |-> AbsentFile, raised |-> FALSE]
    IN  CASE ~step_runs(file, bak, outcome) -> done
          [] outcome = "replace_fails" -> restore_backup(file, bak, restore)
          [] outcome = "open_fails" -> restore_backup(moved.file, moved.bak, restore)
          [] outcome = "write_fails" -> restore_backup(partial, moved.bak, restore)
          [] outcome = "remove_fails" ->
                restore_backup(written.file, written.bak, restore)
          [] OTHER -> done

\* The points of lines 148-156 at which the process can die. No except clause
\* runs: the files stay as the last completed step left them.
CrashPoints == {"before_replace", "after_replace", "in_write", "after_write"}

crash_files(file, bak, content, point, partial) ==
    LET moved == IF exists(file) THEN [file |-> AbsentFile, bak |-> file]
                 ELSE [file |-> file, bak |-> bak]
    IN  CASE point = "before_replace" -> [file |-> file, bak |-> bak]
          [] point = "after_replace" -> moved
          [] point = "in_write" -> [file |-> partial, bak |-> moved.bak]
          [] OTHER -> [file |-> content, bak |-> moved.bak]

\* _save_states(states, state_key): memory and files afterwards. `failed`: an
\* exception was raised inside; `escaped`: it left the function, raised by the
\* except clause itself.
_save_states(prev, file, bak, states, state_key, today, outcome, partial, restore) ==
    LET m == merge_and_prune(prev, states, state_key, today)
        f == IF m.raised THEN restore_backup(file, bak, restore)
             ELSE save_files(file, bak, json_dump(m.value.map), outcome, partial, restore)
    IN  [previous_states |-> m.value, file |-> f.file, bak |-> f.bak,
         failed |-> m.raised \/ (outcome # "ok" /\ step_runs(file, bak, outcome)),
         escaped |-> f.raised,
         status |-> IF f.raised THEN "restore_fails"
                    ELSE IF m.raised THEN "raised"
                    ELSE IF step_runs(file, bak, outcome) THEN outcome ELSE "ok"]

-----------------------------------------------------------------------------
(* Date registry *)

Month(date) == date \div 100

RECURSIVE sorted(_)
\* list.sort() of a list of distinct dates.
sorted(S) ==
    IF S = {} THEN <<>>
    ELSE LET least == CHOOSE x \in S : \A y \in S : x <= y
         IN  <<least>> \o sorted(S \ {least})

Elements(seq) == {seq[i] : i \in DOMAIN seq}

\* _save_known_dates, lines 204-213: the dates grouped by month, each list sorted.
dates_by_month(known) ==
    [month \in {Month(d) : d \in known} |-> sorted({d \in known : Month(d) = month})]

\* The members of a month list that are not strings: JSON null (None) and a
\* JSON number. No date is encoded by them.
Null == 0

Number == 5

NotAString == {Null, Number}

is_str(d) == d \notin NotAString

\* Whether < is defined between two members: between two strings and between
\* two numbers; None compares with nothing.
comparable(a, b) == (is_str(a) /\ is_str(b)) \/ (a = Number /\ b = Number)

\* sorted(list(S)), line 338: TypeError as soon as two members do not compare.
sort_raises(S) == \E a, b \in S : a # b /\ ~comparable(a, b)

\* The registry file parses as a mapping (lines 178-182).
readable(file) == file.kind = "object"

\* _load_known_dates and lines 335-337 of check_all_dates: the known set read
\* from the registry file. Every failure to read is an empty registry.
_load_known_dates(file) ==
    LET r == IF exists(file) /\ file.kind # "empty" THEN json_load(file)
             ELSE [raised |-> FALSE, value |-> EmptyDict]
    IN  IF r.raised \/ r.value.shape # "dict" THEN {}
        ELSE UNION {Elements(r.value.map[month]) : month \in DOMAIN r.value.map}

\* A _save_known_dates that writes the dates of this cycle only.
_save_dates_of_cycle(known, file, bak, dates, outcome, partial, restore) ==
    LET f == save_files(file, bak, json_dump(dates_by_month(dates)), outcome, partial,
                        restore)
    IN  [known_dates |-> dates, file |-> f.file, bak |-> f.bak, raised |-> f.raised]

\* _save_known_dates(dates): the known set and the files afterwards. date[:7]
\* (line 206) raises on a member that is not a string, before backup_file is
\* bound (line 216): the except clause then raises itself (line 230) and the
\* error reaches the caller, the files untouched. So does the error of an
\* os.replace that fails in the except clause (line 231).
_save_known_dates(known, file, bak, dates, outcome, partial, restore) ==
    LET merged == known \cup dates
        f == save_files(file, bak, json_dump(dates_by_month(merged)), outcome, partial,
                        restore)
    IN  IF \E d \in merged : ~is_str(d)
        THEN [known_dates |-> merged, file |-> file, bak |-> bak, raised |-> TRUE]
        ELSE [known_dates |-> merged, file |-> f.file, bak |-> f.bak,
              raised |-> f.raised]

-----------------------------------------------------------------------------
(* Comparison of a scraped row with the stored one *)

\* A comparison that reports every free court, whatever was stored.
is_free_now(prev, state_key, web_state, i) == web_state[i] = "libre"

\* Lines 544-552 of check_availability: court i of the row is reported.
is_newly_free(prev, state_key, web_state, i) ==
    /\ prev.shape = "dict"
    /\ state_key \in DOMAIN prev.map
    /\ web_state[i] = "libre"
    /\ i \in DOMAIN prev.map[state_key]
    /\ prev.map[state_key][i] = "occupé"

\* A second pass that compares the rows of every time, not only the target's.
newly_freed_of_any_row(prev, state_key, web_state, target_time, planning_date) ==
    LET courts == [i \in 1..Len(web_state) |-> i]
        free == SelectSeq(courts,
                   LAMBDA i : is_newly_free(prev, state_key, web_state, i))
    IN  [j \in 1..Len(free) |->
           <<KeyTime(state_key), CourtName(free[j]), planning_date>>]

\* Lines 542-556: the tuples appended to new_slots for one key of web_states.
newly_freed(prev, state_key, web_state, target_time, planning_date) ==
    IF KeyTime(state_key) # target_time THEN <<>>
    ELSE LET courts == [i \in 1..Len(web_state) |-> i]
             free == SelectSeq(courts,
                        LAMBDA i : is_newly_free(prev, state_key, web_state, i))
         IN  [j \in 1..Len(free) |->
                <<target_time, CourtName(free[j]), planning_date>>]

\* A _save_states whose except clause re-raises.
save_error_escapes(outcome, escaped) == outcome # "ok"

\* Whether an exception of _save_states reaches check_availability: the except
\* clause of lines 158-162 catches those of the file part, and only an
\* exception that the clause raises itself gets out.
save_error_propagates(outcome, escaped) == escaped

\* Lines 55 and 64-68 of check_and_notify: the slots that go into the message.
slots_to_notify(available_slots, target_times) ==
    SelectSeq(available_slots, LAMBDA slot : slot[1] \in Elements(target_times))

-----------------------------------------------------------------------------
(* What the site can show *)

\* Largest number of links in the list of planning dates.
MaxUrls == 1

\* Largest number of distinct dates that one planning page lists.
MaxDates == 1

\* Largest number of check_and_notify cycles in a behaviour.
MaxCycles == 2

\* Largest number of failures (a raising file operation, a crash) in a behaviour.
MaxFaults == 1

\* Largest number of direct calls of the state store in a behaviour.
MaxCalls == 3

\* A scraped planning table: one row per time of PageTimes.
Pages == [DOMAIN PageTimes -> Rows]

\* The date of a planning link: <<d>>, or <<>> when _extract_date_from_url
\* returns None. A link without a date parameter has the clock's date.
UrlDates == {<<>>} \cup {<<d>> : d \in Dates}

\* _get_planning_urls: distinct links (line 674), never an empty list. Two
\* distinct links can carry the same date, or no date at all.
UrlLists == UNION {[1..n -> UrlDates] : n \in 1..MaxUrls}

\* today_date after lines 351-354: unbound when no date text is found, None
\* (val = <<>>) when the text does not convert, else the date of the page.
TodayDates ==
    {[bound |-> FALSE, val |-> <<>>]}
        \cup {[bound |-> TRUE, val |-> v] : v \in UrlDates}

\* The values of config.TARGET_TIMES that are modelled.
TargetTimesConfigs == {<<"11H00">>, <<"10H00", "11H00">>}

\* The two programs of the repository that run the tracker: src/src/main.py
\* creates a CourtChecker in every check_and_notify, main.py creates one in
\* main() and passes it to every check_and_notify.
EntryPoints == {"src/src/main.py", "main.py"}

\* The CourtChecker lives as long as the process (main.py, lines 29-43).
one_checker(e) == e = "main.py"

-----------------------------------------------------------------------------
VARIABLES
    stateFile,          \* court_states.json
    bakFile,            \* court_states.json.bak
    datesFile,          \* known_dates.json
    datesBak,           \* known_dates.json.bak
    today,              \* the date of datetime.now()
    target_times,       \* config.TARGET_TIMES
    entry,              \* the program that runs: one of EntryPoints
    previous_states,    \* CourtChecker.previous_states
    known_dates,        \* CourtChecker.known_dates
    pc,                 \* where the process is: "start" and "exited" in
                        \* main(), "idle" in its loop, else in check_and_notify
    today_date,         \* check_all_dates: today_date
    planning_urls,      \* check_all_dates: the links still to visit
    planning_date,      \* the date of the calls in progress, as <<d>>
    ti,                 \* index in target_times of the call in progress
    web_states,         \* check_availability: the scraped rows
    ki,                 \* check_availability: index of the key in progress
    new_slots,          \* check_availability: new_slots
    all_available_slots,\* check_all_dates: all_available_slots
    new_dates_found,    \* check_all_dates: new_dates_found
    all_dates,          \* check_all_dates: all_dates
    notified,           \* what check_and_notify handed to the notifier
    cycle,              \* observation of the cycle in progress
    last_call,          \* observation of the last check_availability call
    last_save,          \* observation of the last _save_states call
    last_crash,         \* observation of the last crash of the process
    loaded,             \* the result of the last direct _load_states call
    cycles,             \* the number of cycles started
    running,            \* the number of check_and_notify calls in progress
    registered,         \* the dates saved by completed cycles since the
                        \* registry file was last unreadable
    faults,             \* the number of failures and crashes so far
    calls               \* the number of direct calls of the store so far

disk == <<stateFile, bakFile, datesFile, datesBak>>

setup == <<target_times, entry>>

config == <<today, setup>>

fields == <<previous_states, known_dates>>

locals == <<today_date, planning_urls, planning_date, ti, web_states, ki,
            new_slots, all_available_slots, new_dates_found, all_dates>>

counters == <<faults, calls>>

observed == <<notified, cycle, last_call, last_save, last_crash, loaded, cycles,
              registered, running, counters>>

vars == <<disk, config, fields, pc, locals, observed>>

NoPage == [i \in DOMAIN PageTimes |-> <<>>]

NoCall == [status |-> "none", target |-> "", date |-> <<>>,
           prev |-> EmptyDict, web |-> NoPage, result |-> <<>>, computed |-> <<>>,
           save_failed |-> FALSE, restore_failed |-> FALSE, clock |-> <<>>]

NoSave == [status |-> "none", key |-> <<>>, states |-> <<>>, pre |-> AbsentFile,
           mem |-> EmptyDict, prev |-> EmptyDict, today |-> 0]

NoCrash == [kind |-> "none", pre |-> AbsentFile, written |-> EmptyDict,
            slots |-> <<>>, notified |-> <<>>]

NoCycle == [status |-> "none", base |-> EmptyDict, known_before |-> {},
            listed |-> {}, pages |-> <<>>, calls |-> {}, rows |-> <<>>,
            all_libre |-> TRUE, prev_listed |-> {},
            save_failed |-> FALSE, state_file |-> "object", dates_file |-> "object",
            restarted |-> FALSE]

NoNotice == [dates |-> <<>>, slots |-> <<>>, failed |-> FALSE]

NoLoad == [called |-> FALSE, kind |-> "absent", raised |-> FALSE, value |-> EmptyDict]

LocalsReset ==
    /\ today_date' = [bound |-> FALSE, val |-> <<>>]
    /\ planning_urls' = <<>>
    /\ planning_date' = <<>>
    /\ ti' = 0
    /\ web_states' = NoPage
    /\ ki' = 0
    /\ new_slots' = <<>>
    /\ all_available_slots' = <<>>
    /\ new_dates_found' = <<>>
    /\ all_dates' = {}

\* The process before its first cycle, whatever the two files hold.
InitProcess ==
    /\ bakFile = AbsentFile
    /\ datesBak = AbsentFile
    /\ today = 20250131
    /\ target_times \in TargetTimesConfigs
    /\ entry \in EntryPoints
    /\ previous_states = EmptyDict
    /\ known_dates = {}
    /\ pc = IF one_checker(entry) THEN "start" ELSE "idle"
    /\ today_date = [bound |-> FALSE, val |-> <<>>]
    /\ planning_urls = <<>>
    /\ planning_date = <<>>
    /\ ti = 0
    /\ web_states = NoPage
    /\ ki = 0
    /\ new_slots = <<>>
    /\ all_available_slots = <<>>
    /\ new_dates_found = <<>>
    /\ all_dates = {}
    /\ notified = NoNotice
    /\ cycle = NoCycle
    /\ last_call = NoCall
    /\ last_save = NoSave
    /\ last_crash = NoCrash
    /\ loaded = NoLoad
    /\ cycles = 0
    /\ registered = {}
    /\ running = 0
    /\ faults = 0
    /\ calls = 0

\* First run: neither file exists yet.
Init ==
    /\ stateFile = AbsentFile
    /\ datesFile = AbsentFile
    /\ InitProcess

NoMainPage == [status |-> "raises", today_date |-> [bound |-> FALSE, val |-> <<>>],
               urls |-> <<>>]

\* The dates that a planning page lists: its own and those of its links.
listed_dates(main_page) ==
    {date[1] : date \in {d \in {main_page.today_date.val} \cup Elements(main_page.urls) :
                            d # <<>>}}

MainPages ==
    {NoMainPage} \cup
    {main_page \in [status : {"ok"}, today_date : TodayDates, urls : UrlLists] :
        Cardinality(listed_dates(main_page)) <= MaxDates}

Scrapes == [status : {"raises", "no_table"}, rows : {NoPage}]
               \cup [status : {"table"}, rows : Pages]

-----------------------------------------------------------------------------
(* main and check_and_notify of the two programs, and the calls they make *)

\* Lines 359-361 and 388-390 of check_all_dates.
with_new_date(found, known, date) ==
    IF date \notin known THEN Append(found, date) ELSE found

\* The kind of the registry file: "junk" is a mapping of months to lists with
\* a member that is not a string.
registry_kind(file) ==
    IF file.kind = "object" /\ \E d \in _load_known_dates(file) : ~is_str(d)
    THEN "junk" ELSE file.kind

\* In src/src/main.py CourtChecker() (the files ensured, the two stores
\* loaded), then in both programs check_all_dates up to its first
\* check_availability call: the known dates reloaded, the planning page
\* requested, its date and links read.
CheckAllDates(main_page) ==
    /\ IF one_checker(entry)
       THEN UNCHANGED <<stateFile, datesFile, previous_states>>
       ELSE /\ stateFile' = _ensure_file_exists(stateFile)
            /\ datesFile' = _ensure_file_exists(datesFile)
            /\ previous_states' = _load_states(stateFile').value
    /\ known_dates' = _load_known_dates(datesFile')
    /\ UNCHANGED notified
    /\ last_call' = NoCall
    /\ last_save' = NoSave
    /\ cycle' = [NoCycle EXCEPT !.status = IF main_page.status = "raises"
                                             THEN "raised" ELSE "running",
                                !.base = _load_states(stateFile').value,
                                !.known_before = known_dates',
                                !.listed = listed_dates(main_page),
                                !.prev_listed = cycle.prev_listed,
                                !.state_file = stateFile.kind,
                                !.dates_file = registry_kind(datesFile),
                                !.restarted = last_crash.kind \in {"crash", "in_save"}]
    /\ IF main_page.status = "raises"
       THEN /\ pc' = "notify"
            /\ LocalsReset
       ELSE /\ today_date' = main_page.today_date
            /\ planning_urls' = main_page.urls
            /\ web_states' = NoPage
            /\ ki' = 0
            /\ new_slots' = <<>>
            /\ all_available_slots' = <<>>
            /\ IF main_page.today_date.val # <<>>
               THEN /\ all_dates' = {main_page.today_date.val[1]}
                    /\ new_dates_found' =
                          with_new_date(<<>>, known_dates', main_page.today_date.val[1])
                    /\ planning_date' = main_page.today_date.val
                    /\ ti' = 1
                    /\ pc' = "times"
               ELSE /\ all_dates' = {}
                    /\ new_dates_found' = <<>>
                    /\ planning_date' = <<>>
                    /\ ti' = 0
                    /\ pc' = "urls"

\* The outcomes of the startup of main() (main.py lines 26-34): it completes,
\* Config.validate() raises (line 27), or CourtChecker(config) raises in
\* _ensure_files_exist (line 29). EmailNotifier(config) only copies fields and
\* _login catches its own errors.
StartupOutcomes == {"ok", "config_raises"} \cup EnsureFailures

\* main() of main.py up to its first check_and_notify (lines 20-38):
\* CourtChecker() ensures the two files and loads the two stores into the
\* checker that every cycle of the process uses; when the startup raises, the
\* except clause of lines 50-54 logs it and main() returns, the files being
\* what _ensure_files_exist had made of them.
Main(startup) ==
    /\ pc = "start"
    /\ startup \in EnsureFailures =>
          (faults < MaxFaults /\ ensure_runs(stateFile, datesFile, startup))
    /\ faults' = IF startup \in EnsureFailures THEN faults + 1 ELSE faults
    /\ IF startup = "config_raises"
       THEN /\ pc' = "exited"
            /\ UNCHANGED <<stateFile, datesFile, fields>>
       ELSE LET ensured == _ensure_files_exist(stateFile, datesFile, startup)
            IN  /\ stateFile' = ensured.state
                /\ datesFile' = ensured.dates
                /\ IF ensured.raised
                   THEN /\ pc' = "exited"
                        /\ UNCHANGED fields
                   ELSE /\ pc' = "idle"
                        /\ previous_states' = _load_states(stateFile').value
                        /\ known_dates' = _load_known_dates(datesFile')
    /\ registered' = IF readable(datesFile') THEN registered ELSE {}
    /\ UNCHANGED <<bakFile, datesBak, config, locals, notified, cycle, last_call,
                   last_save, last_crash, loaded, cycles, running, calls>>

\* A scheduler that runs a job that is due in a thread of its own, whatever
\* the main thread is doing.
any_thread_free(p) == TRUE

\* main() calls check_and_notify() itself, then schedule.run_pending() once per
\* iteration of its loop (lines 116-126): a job runs in the thread that calls
\* run_pending, so a cycle begins only when that thread is back in the loop.
main_thread_free(p) == p = "idle"

\* An except clause of check_and_notify that lets the notifier's error through.
check_and_notify_misses(error) == error # "notifier"

\* The except clause of check_and_notify (lines 108-109) catches every
\* Exception raised in its body, whatever raised it.
check_and_notify_catches(error) == TRUE

\* check_and_notify up to the first check_availability call: CourtChecker()
\* in src/src/main.py (the files ensured, the two stores loaded), then
\* check_all_dates reloads the known dates, requests the planning page and
\* reads its date and links. main_page.status is "raises" when the request
\* fails. Logging the known dates sorted (line 338) raises before any request
\* when they do not sort. When _ensure_files_exist raises in the constructor
\* (src/src/main.py line 29) the except clause of lines 108-109 ends the call
\* before check_all_dates: nothing is handed to the notifier.
CheckAndNotify(planning_page, ensure) ==
    /\ main_thread_free(pc)
    /\ cycles < MaxCycles
    /\ cycles' = cycles + 1
    /\ running' = running + 1
    /\ last_crash' = [NoCrash EXCEPT !.kind = IF last_crash.kind \in {"crash", "in_save"}
                                             THEN "restarted" ELSE "none",
                                    !.pre = last_crash.pre,
                                    !.written = last_crash.written]
    /\ IF ensure = "ok"
       THEN /\ LET registry == IF one_checker(entry) THEN datesFile
                               ELSE _ensure_file_exists(datesFile)
                   main_page == IF sort_raises(_load_known_dates(registry))
                                THEN NoMainPage ELSE planning_page
               IN  CheckAllDates(main_page)
            /\ UNCHANGED <<registered, faults>>
       ELSE /\ ~one_checker(entry)
            /\ faults < MaxFaults
            /\ ensure_runs(stateFile, datesFile, ensure)
            /\ faults' = faults + 1
            /\ LET ensured == _ensure_files_exist(stateFile, datesFile, ensure)
               IN  /\ stateFile' = ensured.state
                   /\ datesFile' = ensured.dates
            /\ cycle' = [NoCycle EXCEPT !.status = "raised",
                                        !.state_file = stateFile.kind,
                                        !.dates_file = registry_kind(datesFile)]
            /\ pc' = IF check_and_notify_catches("checker") THEN "sent" ELSE "terminated"
            /\ registered' = IF readable(datesFile') THEN registered ELSE {}
            /\ last_call' = NoCall
            /\ last_save' = NoSave
            /\ UNCHANGED <<fields, locals, notified>>
    /\ UNCHANGED <<bakFile, datesBak, config, loaded, calls>>

\* The constructor of CourtChecker raises in this call of check_and_notify.
CheckAndNotifyFails ==
    \E ensure \in EnsureFailures : CheckAndNotify(NoMainPage, ensure)

\* The constructor of CourtChecker raises in the startup of main().
MainFails ==
    \E ensure \in EnsureFailures : Main(ensure)

\* check_availability returns `slots` to check_all_dates (lines 366-368 and
\* 395-397): the next target time, or back to the loop over the links.
ReturnToCheckAllDates(slots, call) ==
    /\ all_available_slots' = all_available_slots \o slots
    /\ last_call' = [call EXCEPT !.result = slots]
    /\ web_states' = NoPage
    /\ ki' = 0
    /\ new_slots' = <<>>
    /\ IF ti < Len(target_times)
       THEN /\ ti' = ti + 1
            /\ pc' = "times"
            /\ UNCHANGED planning_date
       ELSE /\ ti' = 0
            /\ pc' = "urls"
            /\ planning_date' = <<>>

\* The row of a time in a page.
RowOf(time) == CHOOSE r \in DOMAIN PageTimes : PageTimes[r] = time

\* Every cell of a page is "libre".
page_libre(page) ==
    \A r \in DOMAIN page : \A i \in DOMAIN page[r] : page[r][i] = "libre"

\* The record of the call for `target_time` scraping `page` of `date`: the
\* last page scraped for the date, and the target's row as this call saw it.
with_scrape(c, target_time, date, page) ==
    [c EXCEPT !.calls = c.calls \cup {<<target_time, date>>},
              !.pages = [d \in DOMAIN c.pages \cup {date} |->
                            IF d = date THEN page ELSE c.pages[d]],
              !.rows = [k \in DOMAIN c.rows \cup {<<target_time, date>>} |->
                            IF k = <<target_time, date>> THEN page[RowOf(target_time)]
                            ELSE c.rows[k]],
              !.all_libre = c.all_libre /\ page_libre(page)]

\* check_availability(target_times[ti], planning_date), lines 465-535: the
\* state reloaded, the page requested and its rows read. scrape.status is
\* "raises" (the request fails), "no_table" or "table" (with its rows).
CheckAvailability(scrape) ==
    /\ pc = "times"
    /\ previous_states' = _load_states(stateFile).value
    /\ last_save' = NoSave
    /\ IF scrape.status = "table"
       THEN /\ web_states' = scrape.rows
            /\ ki' = 1
            /\ new_slots' = <<>>
            /\ pc' = "keys"
            /\ cycle' = with_scrape(cycle, target_times[ti], planning_date[1],
                                       scrape.rows)
            /\ last_call' = [status |-> "running", target |-> target_times[ti],
                             date |-> planning_date, prev |-> previous_states',
                             web |-> scrape.rows, result |-> <<>>, computed |-> <<>>,
                             save_failed |-> FALSE, restore_failed |-> FALSE,
                             clock |-> <<>>]
            /\ UNCHANGED <<ti, planning_date, all_available_slots>>
       ELSE /\ UNCHANGED cycle
            /\ ReturnToCheckAllDates(<<>>,
                  [NoCall EXCEPT !.status = "no_snapshot",
                                 !.target = target_times[ti],
                                 !.date = planning_date,
                                 !.prev = previous_states'])
    /\ last_crash' = NoCrash
    /\ UNCHANGED <<disk, config, known_dates, today_date, planning_urls,
                   new_dates_found, all_dates, notified, loaded, cycles, registered,
                   running, counters>>

\* The iteration once _save_states has run (lines 562-573): an exception that
\* left the save ends the call in the except clause of check_availability,
\* which returns []; else the next row, or the return of new_slots.
ProcessKeySaved(outcome, freed, saved, call) ==
    /\ previous_states' = saved.previous_states
    /\ stateFile' = saved.file
    /\ bakFile' = saved.bak
    /\ IF saved.failed /\ save_error_propagates(outcome, saved.escaped)
       THEN ReturnToCheckAllDates(<<>>, [call EXCEPT !.status = "raised"])
       ELSE IF ki < Len(PageTimes)
       THEN /\ ki' = ki + 1
            /\ new_slots' = new_slots \o freed
            /\ last_call' = call
            /\ UNCHANGED <<pc, ti, planning_date, web_states, all_available_slots>>
       ELSE ReturnToCheckAllDates(new_slots \o freed,
                                  [call EXCEPT !.status = "returned"])

\* One iteration of the second pass of check_availability (lines 538-562),
\* _save_states included, and the return after the last one (lines 564-573).
\* outcome names the step of the save that raises, if any. The save reads the
\* clock (line 139); midnight can pass before the next read. When
\* previous_states is a list the item assignment of lines 559-560 raises
\* TypeError: _save_states is not called and the clock is not read.
ProcessKey(outcome, partial, restore) ==
    /\ pc = "keys"
    /\ previous_states.shape # "dict" => (outcome = "ok" /\ restore)
    /\ today' \in IF previous_states.shape = "dict" THEN {d \in Dates : d >= today}
                  ELSE {today}
    /\ outcome # "ok" => (faults < MaxFaults /\ step_runs(stateFile, bakFile, outcome))
    /\ faults' = IF outcome = "ok" THEN faults ELSE faults + 1
    /\ LET state_key == StateKey(PageTimes[ki], planning_date[1])
           web_state == web_states[ki]
           target_time == target_times[ti]
           freed == newly_freed(previous_states, state_key, web_state,
                                target_time, planning_date[1])
           saved == _save_states(previous_states, stateFile, bakFile, web_state,
                                 state_key, today, outcome, partial, restore)
           call == [last_call EXCEPT !.computed = last_call.computed \o freed,
                                     !.save_failed = last_call.save_failed \/ saved.failed,
                                     !.restore_failed = saved.escaped,
                                     !.clock = Append(last_call.clock, today)]
       IN  /\ restore \/ saved.escaped
           /\ IF previous_states.shape # "dict"
              THEN /\ UNCHANGED <<previous_states, stateFile, bakFile, last_save>>
                   /\ ReturnToCheckAllDates(<<>>, [last_call EXCEPT !.status = "raised"])
              ELSE /\ last_save' = [status |-> saved.status, key |-> state_key,
                                    states |-> web_state, pre |-> stateFile,
                                    mem |-> saved.previous_states,
                                    prev |-> previous_states, today |-> today]
                   /\ ProcessKeySaved(outcome, freed, saved, call)
    /\ cycle' = [cycle EXCEPT !.save_failed =
                    cycle.save_failed \/ (outcome # "ok" /\ previous_states.shape = "dict")]
    /\ UNCHANGED <<datesFile, datesBak, setup, known_dates, today_date,
                   planning_urls, new_dates_found, all_dates, notified,
                   last_crash, loaded, cycles, registered, running, calls>>

\* check_all_dates raises (line 381, today_date unbound) and returns [], []
\* from its except clause (lines 407-409).
CheckAllDatesRaises ==
    /\ pc' = "notify"
    /\ all_available_slots' = <<>>
    /\ new_dates_found' = <<>>
    /\ cycle' = [cycle EXCEPT !.status = "raised"]
    /\ planning_urls' = <<>>
    /\ today_date' = [bound |-> FALSE, val |-> <<>>]
    /\ UNCHANGED <<all_dates, planning_date, ti>>

\* One iteration of the loop over the planning links (lines 374-390).
NextUrl ==
    /\ pc = "urls"
    /\ planning_urls # <<>>
    /\ LET date == Head(planning_urls)
       IN  IF date = <<>>
           THEN /\ planning_urls' = Tail(planning_urls)
                /\ UNCHANGED <<pc, all_available_slots, new_dates_found, cycle,
                               all_dates, planning_date, ti, today_date>>
           ELSE IF ~today_date.bound
           THEN CheckAllDatesRaises
           ELSE IF date = today_date.val
           THEN /\ planning_urls' = Tail(planning_urls)
                /\ UNCHANGED <<pc, all_available_slots, new_dates_found, cycle,
                               all_dates, planning_date, ti, today_date>>
           ELSE /\ planning_urls' = Tail(planning_urls)
                /\ all_dates' = all_dates \cup {date[1]}
                /\ new_dates_found' = with_new_date(new_dates_found, known_dates, date[1])
                /\ planning_date' = date
                /\ ti' = 1
                /\ pc' = "times"
                /\ UNCHANGED <<all_available_slots, cycle, today_date>>
    /\ last_call' = NoCall
    /\ last_save' = NoSave
    /\ last_crash' = NoCrash
    /\ UNCHANGED <<disk, config, fields, web_states, ki, new_slots,
                   notified, loaded, cycles, registered, running, counters>>

\* The end of check_all_dates (lines 399-409): the dates found are saved and
\* the two lists returned; when _save_known_dates raises, two empty lists.
SaveKnownDates(outcome, partial, restore) ==
    /\ pc = "urls"
    /\ planning_urls = <<>>
    /\ outcome # "ok" =>
          /\ faults < MaxFaults
          /\ all_dates # {}
          /\ \A d \in known_dates \cup all_dates : is_str(d)
          /\ step_runs(datesFile, datesBak, outcome)
    /\ faults' = IF outcome = "ok" THEN faults ELSE faults + 1
    /\ LET saved == _save_known_dates(known_dates, datesFile, datesBak,
                                      all_dates, outcome, partial, restore)
       IN  /\ restore \/ (saved.raised /\ outcome # "ok")
           /\ IF all_dates = {}
              THEN /\ UNCHANGED <<known_dates, datesFile, datesBak,
                                  all_available_slots, new_dates_found>>
                   /\ cycle' = [cycle EXCEPT !.status = "returned"]
              ELSE /\ known_dates' = saved.known_dates
                   /\ datesFile' = saved.file
                   /\ datesBak' = saved.bak
                   /\ IF saved.raised
                      THEN /\ all_available_slots' = <<>>
                           /\ new_dates_found' = <<>>
                      ELSE UNCHANGED <<all_available_slots, new_dates_found>>
                   /\ cycle' = [cycle EXCEPT
                         !.status = IF saved.raised THEN "raised" ELSE "returned",
                         !.save_failed = cycle.save_failed \/ outcome # "ok"]
    /\ pc' = "notify"
    /\ today_date' = [bound |-> FALSE, val |-> <<>>]
    /\ last_call' = NoCall
    /\ last_save' = NoSave
    /\ UNCHANGED <<stateFile, bakFile, config, previous_states, planning_urls,
                   planning_date, ti, web_states, ki, new_slots, all_dates,
                   notified, loaded, cycles, running, calls>>
    /\ registered' = IF ~readable(datesFile') THEN {}
                     ELSE IF all_dates = {} \/ cycle'.status = "raised" THEN registered
                     ELSE registered \cup _load_known_dates(datesFile')
    /\ last_crash' = NoCrash

\* Lines 36-106 of check_and_notify in src/src/main.py: the new dates, then
\* the freed slots of the target times, are handed to the notifier. Lines
\* 62-107 of check_and_notify in main.py: one message with both lists.
Notify ==
    /\ pc = "notify"
    /\ notified' = [dates |-> new_dates_found,
                    slots |-> IF one_checker(entry) THEN all_available_slots
                              ELSE slots_to_notify(all_available_slots, target_times),
                    failed |-> FALSE]
    /\ pc' = "sent"
    /\ last_crash' = NoCrash
    /\ UNCHANGED <<disk, config, fields, locals, cycle, last_call, last_save,
                   loaded, cycles, registered, running, counters>>

\* send_notification raises (it logs and re-raises, email_notifier.py lines
\* 73-76). In src/src/main.py: for the message of the new dates nothing has
\* been sent, for the message of the slots the dates have. In main.py: the one
\* message is not sent. check_and_notify logs the error and returns; an
\* uncaught error would end the process.
NotifyFails(message) ==
    /\ pc = "notify"
    /\ faults < MaxFaults
    /\ faults' = faults + 1
    /\ CASE message = "dates" ->
              /\ ~one_checker(entry)
              /\ new_dates_found # <<>>
              /\ notified' = [NoNotice EXCEPT !.failed = TRUE]
         [] message = "slots" ->
              /\ ~one_checker(entry)
              /\ slots_to_notify(all_available_slots, target_times) # <<>>
              /\ notified' = [NoNotice EXCEPT !.failed = TRUE, !.dates = new_dates_found]
         [] OTHER ->
              /\ one_checker(entry)
              /\ all_available_slots # <<>> \/ new_dates_found # <<>>
              /\ notified' = [NoNotice EXCEPT !.failed = TRUE]
    /\ pc' = IF check_and_notify_catches("notifier") THEN "sent" ELSE "terminated"
    /\ last_crash' = NoCrash
    /\ UNCHANGED <<disk, config, fields, locals, cycle, last_call, last_save,
                   loaded, cycles, registered, running, calls>>

\* check_and_notify returns to the scheduler loop and its locals die with the
\* call; so does the checker that check_and_notify of src/src/main.py made.
Return ==
    /\ pc = "sent"
    /\ pc' = "idle"
    /\ LocalsReset
    /\ IF one_checker(entry) THEN UNCHANGED fields
       ELSE /\ previous_states' = EmptyDict
            /\ known_dates' = {}
    /\ notified' = NoNotice
    /\ cycle' = [NoCycle EXCEPT !.prev_listed =
                    IF cycle.status = "returned" THEN cycle.listed ELSE {}]
    /\ last_call' = NoCall
    /\ last_save' = NoSave
    /\ running' = running - 1
    /\ UNCHANGED <<disk, config, last_crash, loaded, cycles, registered, counters>>

\* The clock passes midnight, wherever the process is.
Tick ==
    /\ \E d \in Dates : d > today /\ today' = d
    /\ UNCHANGED <<disk, setup, fields, pc, locals, observed>>

-----------------------------------------------------------------------------
(* Failures: a step of a save raises, or the process dies *)

\* The ways a save can fail: the step that raises, what the write left in the
\* file when it is the write, and whether the except clause restores the
\* backup (TRUE) or its os.replace raises as well (FALSE).
SaveFailures ==
    {<<outcome, EmptyFile, restore>> :
        outcome \in SaveOutcomes \ {"ok", "write_fails"}, restore \in BOOLEAN}
        \cup {<<"write_fails", partial, restore>> :
                 partial \in PartialWrites, restore \in BOOLEAN}

\* A step of the file part of _save_states raises in this iteration.
ProcessKeyFails ==
    \E failure \in SaveFailures : ProcessKey(failure[1], failure[2], failure[3])

\* A step of the file part of _save_known_dates raises.
SaveKnownDatesFails ==
    \E failure \in SaveFailures : SaveKnownDates(failure[1], failure[2], failure[3])

\* The process is gone: its memory is lost, the files stay. It is started
\* again: main() of main.py runs from its first line.
ProcessDies(kind, pre, written, slots, begun) ==
    /\ faults < MaxFaults
    /\ faults' = faults + 1
    /\ last_crash' = [kind |-> kind, pre |-> pre, written |-> written,
                      slots |-> slots, notified |-> notified.slots]
    /\ pc' = IF one_checker(entry) THEN "start" ELSE "idle"
    /\ LocalsReset
    /\ previous_states' = EmptyDict
    /\ known_dates' = {}
    /\ notified' = NoNotice
    /\ cycle' = NoCycle
    /\ last_call' = NoCall
    /\ last_save' = NoSave
    /\ registered' = IF readable(datesFile') THEN registered ELSE {}
    /\ running' = 0
    /\ cycles' = cycles + begun
    /\ UNCHANGED <<config, loaded, calls>>

\* The check_and_notify calls that have begun when the process dies in the
\* constructor of CourtChecker or in the requests that follow it: none in
\* main() of main.py, the call in progress otherwise.
begun_calls == IF pc = "start" THEN 0 ELSE 1

\* The points of _ensure_files_exist at which the process can die with the
\* files changed: between open(.., 'w'), which truncates, and json.dump,
\* which writes, for each file, and between the two files (after line 87,
\* before line 90).
EnsurePoints == {"state_truncated", "state_written", "dates_truncated"}

\* The process dies inside _ensure_files_exist, called by the constructor of
\* CourtChecker in main() of main.py and in every check_and_notify call of
\* src/src/main.py.
CrashInEnsure(point) ==
    /\ \/ one_checker(entry) /\ pc = "start"
       \/ ~one_checker(entry) /\ pc = "idle" /\ cycles < MaxCycles
    /\ CASE point = "state_truncated" ->
              /\ needs_rewrite(stateFile)
              /\ stateFile' = EmptyFile
              /\ UNCHANGED datesFile
         [] point = "state_written" ->
              /\ stateFile' = _ensure_file_exists(stateFile)
              /\ UNCHANGED datesFile
         [] OTHER ->
              /\ needs_rewrite(datesFile)
              /\ stateFile' = _ensure_file_exists(stateFile)
              /\ datesFile' = EmptyFile
    /\ UNCHANGED <<bakFile, datesBak>>
    /\ ProcessDies("crash", stateFile, EmptyDict, <<>>, begun_calls)

\* The process dies while a request is awaited, before the first
\* check_availability call: in _login of main() (main.py line 34) or in the
\* requests of check_all_dates (lines 341-344). The constructor
\* of CourtChecker that ran before in the same step has ensured the files.
CrashInRequest ==
    /\ \/ one_checker(entry) /\ pc = "start"
       \/ pc = "idle" /\ cycles < MaxCycles
    /\ IF one_checker(entry) /\ pc = "idle"
       THEN UNCHANGED <<stateFile, datesFile>>
       ELSE /\ stateFile' = _ensure_file_exists(stateFile)
            /\ datesFile' = _ensure_file_exists(datesFile)
    /\ UNCHANGED <<bakFile, datesBak>>
    /\ ProcessDies("crash", stateFile, EmptyDict, <<>>, begun_calls)

\* The process dies between two steps of check_and_notify.
Crash ==
    /\ pc \in {"times", "keys", "urls", "notify", "sent"}
    /\ UNCHANGED disk
    /\ ProcessDies("crash", stateFile, EmptyDict, all_available_slots \o new_slots, 0)

\* The process dies inside _save_states, in the iteration in progress.
CrashInSave(point, partial) ==
    /\ pc = "keys"
    /\ previous_states.shape = "dict"
    /\ UNCHANGED <<datesFile, datesBak>>
    /\ LET state_key == StateKey(PageTimes[ki], planning_date[1])
           web_state == web_states[ki]
           freed == newly_freed(previous_states, state_key, web_state,
                                target_times[ti], planning_date[1])
           m == merge_and_prune(previous_states, web_state, state_key, today)
           f == crash_files(stateFile, bakFile, json_dump(m.value.map), point, partial)
       IN  /\ stateFile' = f.file
           /\ bakFile' = f.bak
           /\ ProcessDies("in_save", stateFile, m.value,
                          all_available_slots \o new_slots \o freed, 0)

\* The process dies inside _save_known_dates.
CrashInDatesSave(point, partial) ==
    /\ pc = "urls"
    /\ planning_urls = <<>>
    /\ all_dates # {}
    /\ LET f == crash_files(datesFile, datesBak,
                            json_dump(dates_by_month(known_dates \cup all_dates)),
                            point, partial)
       IN  /\ datesFile' = f.file
           /\ datesBak' = f.bak
    /\ ProcessDies("crash", stateFile, EmptyDict, all_available_slots, 0)
    /\ UNCHANGED <<stateFile, bakFile>>

-----------------------------------------------------------------------------
(* The state store used on its own: _load_states, _save_states and            *)
(* _ensure_files_exist called on a file with any content                      *)

\* The keys of the stored mappings: those of the planning rows, and a key of
\* an older format without separator.
StoreKeys == {StateKey("11H00", d) : d \in Dates} \cup {<<"11H00">>}

StoreMaps ==
    {<<>>} \cup
    {[k \in K |-> row] : K \in {S \in SUBSET StoreKeys : Cardinality(S) \in 1..2},
                         row \in Rows}

StoreFiles ==
    {AbsentFile, EmptyFile, GarbageFile, ArrayFile} \cup
    {json_dump(m) : m \in StoreMaps}

StoreInit ==
    /\ stateFile \in StoreFiles
    /\ bakFile = AbsentFile
    /\ datesFile = json_dump(<<>>)
    /\ datesBak = AbsentFile
    /\ today \in Dates
    /\ target_times = <<"11H00">>
    /\ entry = "src/src/main.py"
    /\ previous_states = EmptyDict
    /\ known_dates = {}
    /\ pc = "store"
    /\ today_date = [bound |-> FALSE, val |-> <<>>]
    /\ planning_urls = <<>>
    /\ planning_date = <<>>
    /\ ti = 0
    /\ web_states = NoPage
    /\ ki = 0
    /\ new_slots = <<>>
    /\ all_available_slots = <<>>
    /\ new_dates_found = <<>>
    /\ all_dates = {}
    /\ notified = NoNotice
    /\ cycle = NoCycle
    /\ last_call = NoCall
    /\ last_save = NoSave
    /\ last_crash = NoCrash
    /\ loaded = NoLoad
    /\ cycles = 0
    /\ registered = {}
    /\ running = 0
    /\ faults = 0
    /\ calls = 0

store_frame == <<datesFile, datesBak, config, known_dates, pc, locals, notified,
                 cycle, last_call, last_crash, cycles, registered, running>>

\* self.previous_states = self._load_states()
StoreLoad ==
    /\ pc = "store"
    /\ calls < MaxCalls
    /\ calls' = calls + 1
    /\ loaded' = [called |-> TRUE, kind |-> stateFile.kind,
                  raised |-> _load_states(stateFile).raised,
                  value |-> _load_states(stateFile).value]
    /\ previous_states' = _load_states(stateFile).value
    /\ UNCHANGED <<stateFile, bakFile, last_save, faults, store_frame>>

\* self._save_states(states, state_key); outcome names the step of the save
\* that raises, if any.
StoreSave(states, state_key, outcome, partial, restore) ==
    /\ pc = "store"
    /\ calls < MaxCalls
    /\ calls' = calls + 1
    /\ outcome # "ok" => (faults < MaxFaults /\ step_runs(stateFile, bakFile, outcome))
    /\ faults' = IF outcome = "ok" THEN faults ELSE faults + 1
    /\ LET saved == _save_states(previous_states, stateFile, bakFile, states,
                                 state_key, today, outcome, partial, restore)
       IN  /\ restore \/ saved.escaped
           /\ previous_states' = saved.previous_states
           /\ stateFile' = saved.file
           /\ bakFile' = saved.bak
           /\ last_save' = [status |-> saved.status,
                            key |-> state_key, states |-> states, pre |-> stateFile,
                            mem |-> saved.previous_states,
                            prev |-> previous_states, today |-> today]
    /\ loaded' = NoLoad
    /\ UNCHANGED store_frame

\* self._ensure_files_exist(); outcome names the step that raises, if any.
StoreEnsure(outcome) ==
    /\ pc = "store"
    /\ calls < MaxCalls
    /\ calls' = calls + 1
    /\ outcome # "ok" => (faults < MaxFaults /\ ensure_runs(stateFile, datesFile, outcome))
    /\ faults' = IF outcome = "ok" THEN faults ELSE faults + 1
    /\ stateFile' = _ensure_files_exist(stateFile, datesFile, outcome).state
    /\ loaded' = NoLoad
    /\ last_save' = NoSave
    /\ UNCHANGED <<bakFile, previous_states, store_frame>>

StoreNext ==
    \/ StoreLoad
    \/ \E states \in Rows, state_key \in StoreKeys,
          save \in {<<"ok", EmptyFile, TRUE>>} \cup SaveFailures :
            StoreSave(states, state_key, save[1], save[2], save[3])
    \/ \E outcome \in EnsureOutcomes : StoreEnsure(outcome)
    \/ Tick

SpecStore == StoreInit /\ [][StoreNext]_vars

-----------------------------------------------------------------------------
Next ==
    \/ \E startup \in {"ok", "config_raises"} : Main(startup)
    \/ \E main_page \in MainPages : CheckAndNotify(main_page, "ok")
    \/ \E scrape \in Scrapes : CheckAvailability(scrape)
    \/ ProcessKey("ok", EmptyFile, TRUE)
    \/ NextUrl
    \/ SaveKnownDates("ok", EmptyFile, TRUE)
    \/ Notify
    \/ Return
    \/ Tick

Spec == Init /\ [][Next]_vars

\* The two files as another program or an operator may have left them before
\* the process starts: one of them damaged, the other as a first run makes it.
DamagedStateFiles == {AbsentFile, EmptyFile, GarbageFile, ArrayFile}

\* Month lists that hold a member that is not a string.
JunkLists == {<<Number>>, <<Null>>, <<Number, 20250131>>, <<Null, Number>>}

DamagedDatesFiles ==
    {AbsentFile, EmptyFile, GarbageFile, ArrayFile}
        \cup {json_dump([month \in {Month(20250131)} |-> list]) : list \in JunkLists}

InitDamaged ==
    /\ \/ stateFile \in DamagedStateFiles /\ datesFile = json_dump(<<>>)
       \/ stateFile = json_dump(<<>>) /\ datesFile \in DamagedDatesFiles
    /\ InitProcess

SpecDamaged == InitDamaged /\ [][Next]_vars

NextFault ==
    \/ Next
    \/ MainFails
    \/ CheckAndNotifyFails
    \/ ProcessKeyFails
    \/ SaveKnownDatesFails
    \/ \E message \in {"dates", "slots", "combined"} : NotifyFails(message)
    \/ Crash
    \/ \E point \in EnsurePoints : CrashInEnsure(point)
    \/ CrashInRequest
    \/ \E point \in CrashPoints, partial \in PartialWrites : CrashInSave(point, partial)
    \/ \E point \in CrashPoints, partial \in PartialWrites :
          CrashInDatesSave(point, partial)

\* The failures are explored with one target time configured.
InitFault == Init /\ target_times = <<"11H00">>

SpecFault == InitFault /\ [][NextFault]_vars

-----------------------------------------------------------------------------
(* Properties *)

\* The status stored for court i under a key: "absent" when there is none.
stored_status(value, state_key, i) ==
    IF /\ value.shape = "dict"
       /\ state_key \in DOMAIN value.map
       /\ i \in DOMAIN value.map[state_key]
    THEN value.map[state_key][i]
    ELSE "absent"

\* How many times x occurs in a list.
occurrences(seq, x) == Cardinality({j \in DOMAIN seq : seq[j] = x})

\* The last check_availability call has returned to check_all_dates.
call_done == last_call.status \in {"returned", "raised"}

\* The call returned a tuple for court i of row r of its page.
call_reported(r, i) ==
    <<PageTimes[r], CourtName(i), last_call.date[1]>> \in Elements(last_call.result)

\* Court i of row r was stored "occupé" when the call began and is scraped "libre".
call_transition(r, i) ==
    /\ stored_status(last_call.prev, StateKey(PageTimes[r], last_call.date[1]), i)
          = "occupé"
    /\ last_call.web[r][i] = "libre"

\* C1 (amended): a check_availability call returns the tuple (time, court,
\* date) of a cell of the scraped page if and only if the time is the call's
\* target time, the status stored under "time|date" for the court when the
\* call began was "occupé", the scraped status is "libre", and the stored row
\* was still in memory at the comparison: the row is the first of the page (no
\* save has pruned the date yet), or the date is not earlier than the date
\* that the save of the row before read from the clock.
C1_TransitionOfTargetRow ==
    call_done =>
        \A r \in DOMAIN PageTimes : \A i \in DOMAIN last_call.web[r] :
            call_reported(r, i) <=>
                /\ call_transition(r, i)
                /\ PageTimes[r] = last_call.target
                /\ (r = 1 \/ last_call.date[1] >= last_call.clock[r - 1])

\* C1 as stated: for every time row and court of the scraped page, the tuple
\* is returned if and only if the stored status was "occupé" and the scraped
\* status is "libre".
C1_TransitionOfEveryRow ==
    call_done =>
        \A r \in DOMAIN PageTimes : \A i \in DOMAIN last_call.web[r] :
            call_reported(r, i) <=> call_transition(r, i)

\* A call has returned a freed-slot tuple while another row of the page, not
\* the target's, went from "occupé" to "libre" as well.
C1_Witness ==
    /\ last_call.status = "returned"
    /\ \E r \in DOMAIN PageTimes : \E i \in DOMAIN last_call.web[r] :
          call_reported(r, i)
    /\ \E r \in DOMAIN PageTimes : \E i \in DOMAIN last_call.web[r] :
          call_transition(r, i) /\ PageTimes[r] # last_call.target

\* C2: after a failure inside _save_states, the state loaded next is the
\* mapping that was in the file immediately before the failed save, never a
\* partial, missing or empty one: after an exception of a file operation,
\* and after a crash of the process followed by a cold start
\* (_ensure_files_exist then _load_states). After a crash the mapping whose
\* write had completed is accepted as well.
C2_CrashSafety ==
    /\ last_save.status \in SaveOutcomes \ {"ok"} =>
          _load_states(stateFile).value = _load_states(last_save.pre).value
    /\ last_crash.kind = "restarted" =>
          cycle.base \in {_load_states(last_crash.pre).value, last_crash.written}

\* C3: when the state file is absent, empty or holds bytes that are no JSON,
\* _load_states returns an empty mapping and raises nothing.
C3_CorruptionTolerance ==
    (loaded.called /\ loaded.kind \in {"absent", "empty", "garbage"}) =>
        (~loaded.raised /\ loaded.value = EmptyDict)

\* _load_states has been called on a file of garbage.
C3_Witness == loaded.called /\ loaded.kind = "garbage"

\* The PersistedState that a _save_states call saves: the mapping in memory
\* with the row of the call under its key.
saved_state ==
    [k \in DOMAIN last_save.prev.map \cup {last_save.key} |->
        IF k = last_save.key THEN last_save.states ELSE last_save.prev.map[k]]

\* Every key of the saved mapping is a "time|date" key.
well_formed_state == \A k \in DOMAIN saved_state : HasSeparator(k)

\* The keys of the saved mapping that have a separator and a date not earlier
\* than the date the save read from the clock.
keys_from_today ==
    {k \in DOMAIN saved_state : HasSeparator(k) /\ KeyDate(k) >= last_save.today}

\* C4 (amended): a _load_states that follows a successful _save_states of a
\* mapping returns that mapping restricted to its keys of a date not earlier
\* than the date the save read from the clock, with the rows that were saved.
C4_RoundTripFromToday ==
    (loaded.called /\ last_save.status = "ok") =>
        /\ ~loaded.raised
        /\ loaded.value = PyDict([k \in keys_from_today |-> saved_state[k]])

\* C4 as stated: a _load_states that follows a successful _save_states of a
\* well-formed mapping returns a mapping equal to it.
C4_RoundTrip ==
    (loaded.called /\ last_save.status = "ok" /\ well_formed_state) =>
        (~loaded.raised /\ loaded.value = PyDict(saved_state))

\* A well-formed mapping with a key of an earlier date and a key of today has
\* been saved, then loaded.
C4_Witness ==
    /\ loaded.called
    /\ last_save.status = "ok"
    /\ well_formed_state
    /\ keys_from_today # {}
    /\ keys_from_today # DOMAIN saved_state

\* C5: when check_all_dates has returned, its list of new dates holds exactly
\* the dates listed on the site that were not in the registry when the cycle
\* began, each once; and it is empty when the cycle before completed with the
\* same dates listed.
C5_Registration ==
    pc = "notify" =>
        /\ Elements(new_dates_found) = cycle.listed \ cycle.known_before
        /\ \A d \in Dates : occurrences(new_dates_found, d) <= 1
        /\ (cycle.prev_listed # {} /\ cycle.listed = cycle.prev_listed)
              => new_dates_found = <<>>

\* Every cell of every page scraped so far in the cycle is "libre".
all_libre == cycle.all_libre

\* C6: in a cycle that began with an empty persisted state and whose pages
\* show every slot "libre", no freed-slot tuple is collected.
C6_NoBaselineNoEvent ==
    (cycle.base = EmptyDict /\ all_libre) =>
        (all_available_slots = <<>> /\ new_slots = <<>>)

\* Such a cycle has returned, with a free court in a row of a target time.
C6_Witness ==
    /\ pc = "notify"
    /\ cycle.status = "returned"
    /\ cycle.base = EmptyDict
    /\ all_libre
    /\ \E c \in cycle.calls : cycle.rows[c] # <<>>

\* C7: when check_all_dates has returned, a slot of a target time that the
\* call for that time scraped "libre" has exactly one tuple in the returned
\* list if it was stored "occupé" when the cycle began, and none if it was
\* stored "libre".
C7_DetectedOnce ==
    (pc = "notify" /\ cycle.status = "returned") =>
        \A c \in cycle.calls : \A i \in DOMAIN cycle.rows[c] :
            LET n == occurrences(all_available_slots, <<c[1], CourtName(i), c[2]>>)
                was == stored_status(cycle.base, StateKey(c[1], c[2]), i)
            IN  cycle.rows[c][i] = "libre" =>
                    /\ was = "occupé" => n = 1
                    /\ was = "libre" => n = 0

\* Court i of row r was stored "libre" when the call began and is scraped
\* "occupé".
reoccupied(r, i) ==
    /\ stored_status(last_call.prev, StateKey(PageTimes[r], last_call.date[1]), i)
          = "libre"
    /\ last_call.web[r][i] = "occupé"

\* The call returned no tuple for the slot and the state file now records it
\* as "occupé".
silent_and_persisted(r, i) ==
    /\ ~call_reported(r, i)
    /\ stored_status(_load_states(stateFile).value,
                     StateKey(PageTimes[r], last_call.date[1]), i) = "occupé"

\* C8 (amended): when a check_availability call has returned, a slot of a
\* date not earlier than today that was stored "libre" when the call began
\* and that the call scraped "occupé" has no tuple in the list returned and
\* is persisted as "occupé".
C8_ReoccupationFromToday ==
    last_call.status = "returned" =>
        \A r \in DOMAIN PageTimes : \A i \in DOMAIN last_call.web[r] :
            (reoccupied(r, i) /\ last_call.date[1] >= today) =>
                silent_and_persisted(r, i)

\* C8 as stated: the same for a slot of any date.
C8_ReoccupationOfAnyDate ==
    last_call.status = "returned" =>
        \A r \in DOMAIN PageTimes : \A i \in DOMAIN last_call.web[r] :
            reoccupied(r, i) => silent_and_persisted(r, i)

\* A call has returned after scraping "occupé" a slot stored "libre", and
\* its cycle is about to return.
C8_Witness ==
    /\ pc = "urls"
    /\ planning_urls = <<>>
    /\ last_call.status = "returned"
    /\ last_call.date[1] >= today
    /\ \E r \in DOMAIN PageTimes : \E i \in DOMAIN last_call.web[r] : reoccupied(r, i)

\* C9: when the process has crashed, every occupied-to-free transition that
\* the interrupted cycle observed either had been handed to the notifier or
\* is still "occupé" in the state that a restart loads.
C9_AtLeastOnce ==
    last_crash.kind \in {"crash", "in_save"} =>
        \A j \in DOMAIN last_crash.slots :
            LET slot == last_crash.slots[j]
                restart == _load_states(_ensure_file_exists(stateFile)).value
            IN  \/ slot \in Elements(last_crash.notified)
                \/ stored_status(restart, StateKey(slot[1], slot[3]), slot[2][2])
                      = "occupé"

rows_persisted(d, page) ==
    d >= today =>
        \A r \in DOMAIN PageTimes :
            /\ StateKey(PageTimes[r], d) \in DOMAIN _load_states(stateFile).value.map
            /\ _load_states(stateFile).value.map[StateKey(PageTimes[r], d)] = page[r]

\* What check_availability and check_all_dates hand to their callers is
\* backed by the two files.
stores_written ==
    /\ last_call.status = "returned" => rows_persisted(last_call.date[1], last_call.web)
    /\ (pc = "notify" /\ cycle.status = "returned") =>
          /\ \A d \in DOMAIN cycle.pages : rows_persisted(d, cycle.pages[d])
          /\ all_dates \subseteq _load_known_dates(datesFile)

\* C11: in every cycle, when check_availability returns its tuples the state
\* file holds every row it scraped, and when check_all_dates returns its two
\* lists the state file holds the rows of every page of the cycle and the
\* registry file holds the cycle's dates.
C11_EmittedAfterWrittenAlways == stores_written

\* C12: when check_all_dates has returned from a cycle in which no request
\* yielded a planning table, it has returned no freed slot and no new date,
\* and the state file and the registry file hold what they held when the
\* cycle began.
C12_NoSnapshotNoMutation ==
    (pc = "notify" /\ cycle.calls = {}) =>
        /\ all_available_slots = <<>>
        /\ new_dates_found = <<>>
        /\ _load_states(stateFile).value = cycle.base
        /\ _load_known_dates(datesFile) = cycle.known_before

\* C13: no failure inside a cycle ends the process: check_and_notify is
\* never left by an exception, a check_all_dates that raised inside has
\* returned its two lists, empty, and main() returns only from its startup,
\* with no cycle in progress.
C13_NoErrorTerminatesHost ==
    /\ pc # "terminated"
    /\ (pc = "notify" /\ cycle.status = "raised") =>
          (all_available_slots = <<>> /\ new_dates_found = <<>>)
    /\ pc = "exited" => (running = 0 /\ cycle.status = "none")

\* The notifier has raised and check_and_notify is about to return.
C13_Witness == pc = "sent" /\ notified.failed

\* C14: a cycle that finds the state file unparsable or not a mapping returns
\* no freed-slot tuple, and once it has returned with a table scraped the
\* file is a well-formed mapping that holds the rows scraped.
C14_MalformedStateFileRecovered ==
    (pc = "notify" /\ cycle.state_file \in {"empty", "garbage", "array"}) =>
        /\ all_available_slots = <<>>
        /\ (cycle.status = "returned" /\ DOMAIN cycle.pages # {}) =>
              /\ stateFile.kind = "object"
              /\ \A d \in DOMAIN cycle.pages : rows_persisted(d, cycle.pages[d])

\* C15: a cycle that finds the registry file missing, empty, unparsable or of
\* the wrong shape loads an empty known set, and when it has listed dates it
\* returns its lists and leaves the registry rewritten, month by month, with
\* the dates listed.
C15_DamagedRegistryTolerated ==
    (pc = "notify" /\ all_dates # {}
        /\ cycle.dates_file \in {"absent", "empty", "garbage", "array", "junk"}) =>
        /\ cycle.known_before = {}
        /\ cycle.status = "returned"
        /\ datesFile = json_dump(dates_by_month(all_dates))

\* C16: when a call has scraped a row without court cells for a key whose
\* stored row has statuses, it returns no tuple for that row and the file
\* still holds the stored row under the key.
C16_MalformedRowRejected ==
    (last_call.status = "returned" /\ last_call.date[1] >= today) =>
        \A r \in DOMAIN PageTimes :
            LET state_key == StateKey(PageTimes[r], last_call.date[1])
                stored == last_call.prev.map
                on_file == _load_states(stateFile).value.map
            IN  (/\ last_call.web[r] = <<>>
                 /\ state_key \in DOMAIN stored
                 /\ stored[state_key] # <<>>) =>
                    /\ \A i \in 1..MaxCourts : ~call_reported(r, i)
                    /\ state_key \in DOMAIN on_file
                    /\ on_file[state_key] = stored[state_key]

\* C17: the first cycle of a restarted process compares with the mapping
\* that the process before it saved last, and a court stored "occupé" in it
\* that a call of this cycle scrapes "libre" is in the list the cycle returns.
C17_ColdStartRehydration ==
    /\ last_crash.kind = "restarted" =>
          cycle.base \in {_load_states(last_crash.pre).value, last_crash.written}
    /\ (pc = "notify" /\ cycle.restarted /\ cycle.status = "returned") =>
          \A c \in cycle.calls : \A i \in DOMAIN cycle.rows[c] :
              (/\ stored_status(cycle.base, StateKey(c[1], c[2]), i) = "occupé"
               /\ cycle.rows[c][i] = "libre") =>
                  <<c[1], CourtName(i), c[2]>> \in Elements(all_available_slots)

\* C18: while the registry file is readable it holds every date that a
\* completed cycle has saved since it was last unreadable, whatever the later
\* cycles list and whether their saves fail or the process crashes.
C18_RegistryMonotone ==
    readable(datesFile) => registered \subseteq _load_known_dates(datesFile)

\* A later cycle that listed other dates has saved the registry, and a date
\* that only an earlier cycle listed is in the file.
C18_Witness ==
    /\ pc = "notify"
    /\ cycle.status = "returned"
    /\ all_dates # {}
    /\ all_dates \subseteq _load_known_dates(datesFile)
    /\ \E d \in registered : d \notin all_dates /\ d \in _load_known_dates(datesFile)

\* C19: with several target times, when check_all_dates has returned, every
\* court of a target time's row that the cycle's baseline stored "occupé" and
\* that the call for that time scrapes "libre" is in the list returned,
\* whichever the position of the time in TARGET_TIMES.
C19_EveryTargetTimeDetected ==
    (pc = "notify" /\ cycle.status = "returned" /\ Len(target_times) > 1) =>
        \A c \in cycle.calls : \A i \in DOMAIN cycle.rows[c] :
            (/\ c[2] >= today
             /\ stored_status(cycle.base, StateKey(c[1], c[2]), i) = "occupé"
             /\ cycle.rows[c][i] = "libre") =>
                <<c[1], CourtName(i), c[2]>> \in Elements(all_available_slots)

\* C20: once a _save_states call has returned, whatever calls came before it
\* and whether it failed or not, the state file exists, parses as a mapping,
\* and no .bak file is left.
C20_StoreFileInvariant ==
    last_save.status # "none" =>
        /\ exists(stateFile)
        /\ stateFile.kind = "object"
        /\ ~exists(bakFile)

\* The mapping that the state file holds.
persisted == _load_states(stateFile).value.map

\* C21: after a successful _save_states the file holds no key of a date
\* before today (the date that the save read from the clock) and no key
\* without separator, and it holds every key of today or later, other than
\* the key saved, that the mapping held before.
C21_Retention ==
    last_save.status = "ok" =>
        /\ \A k \in DOMAIN persisted :
              HasSeparator(k) /\ KeyDate(k) >= last_save.today
        /\ \A k \in DOMAIN last_save.prev.map :
              (HasSeparator(k) /\ KeyDate(k) >= last_save.today /\ k # last_save.key) =>
                  k \in DOMAIN persisted

\* A successful save has dropped a key of the mapping and kept another one,
\* neither being the key saved.
C21_Witness ==
    /\ last_save.status = "ok"
    /\ \E k \in DOMAIN last_save.prev.map : k # last_save.key /\ k \notin DOMAIN persisted
    /\ \E k \in DOMAIN last_save.prev.map : k # last_save.key /\ k \in DOMAIN persisted

\* C22: when a cycle in which no save failed has returned, the file holds
\* under "time|date", for every row of every page scraped for a date not
\* before today, exactly the row scraped: a court of the stored row that the
\* scraped row lacks is gone.
C22_FullReplacement ==
    (pc = "notify" /\ cycle.status = "returned" /\ ~cycle.save_failed) =>
        \A d \in DOMAIN cycle.pages : \A r \in DOMAIN PageTimes :
            d >= today =>
                /\ StateKey(PageTimes[r], d) \in DOMAIN persisted
                /\ persisted[StateKey(PageTimes[r], d)] = cycle.pages[d][r]

\* A cycle has returned after scraping a row with fewer courts than the row
\* stored under its key.
C22_Witness ==
    /\ pc = "notify"
    /\ cycle.status = "returned"
    /\ ~cycle.save_failed
    /\ \E d \in DOMAIN cycle.pages : \E r \in DOMAIN PageTimes :
          /\ d >= today
          /\ StateKey(PageTimes[r], d) \in DOMAIN cycle.base.map
          /\ Len(cycle.base.map[StateKey(PageTimes[r], d)]) > Len(cycle.pages[d][r])

\* C23: at most one check_and_notify call is in progress at any time, and
\* the stores are read or written only by the call in progress.
C23_NoConcurrentCycles ==
    /\ running <= 1
    /\ pc \in {"times", "keys", "urls", "notify", "sent"} => running = 1

\* A second cycle is in progress after the first one has returned: the job
\* was started by the scheduler loop.
C23_Witness == cycles = 2 /\ running = 1 /\ pc = "keys"

\* C24: every tuple that check_availability returns has the time of its
\* target_time argument and every tuple that check_all_dates returns has a
\* time of the target_times list, while a call in which no save failed leaves
\* every row of its page in the file.
C24_EventsOfTargetTimes ==
    /\ call_done =>
          \A slot \in Elements(last_call.result) : slot[1] = last_call.target
    /\ pc = "notify" =>
          \A slot \in Elements(all_available_slots) : slot[1] \in Elements(target_times)
    /\ (last_call.status = "returned" /\ ~last_call.save_failed) =>
          rows_persisted(last_call.date[1], last_call.web)

\* check_all_dates has returned a tuple of a target time, and a court of a row
\* of another time, stored "occupé" before the cycle, is "libre" on the page
\* and in the file.
C24_Witness ==
    /\ pc = "notify"
    /\ all_available_slots # <<>>
    /\ \E d \in DOMAIN cycle.pages : \E r \in DOMAIN PageTimes :
          \E i \in DOMAIN cycle.pages[d][r] :
              /\ PageTimes[r] \notin Elements(target_times)
              /\ stored_status(cycle.base, StateKey(PageTimes[r], d), i) = "occupé"
              /\ cycle.pages[d][r][i] = "libre"
              /\ stored_status(_load_states(stateFile).value,
                               StateKey(PageTimes[r], d), i) = "libre"

\* C25 (amended): after a successful _save_states for a key, every other key
\* that the file holds was in self.previous_states before the save, with the
\* same row.
C25_FrameOfSave ==
    last_save.status = "ok" =>
        \A k \in DOMAIN persisted :
            k # last_save.key =>
                /\ k \in DOMAIN last_save.prev.map
                /\ persisted[k] = last_save.prev.map[k]

\* C25 as stated, the entries being those of the file: after a successful
\* _save_states for a key, every other key that the file holds was in the
\* file before the save, with the same row.
C25_FrameOfFile ==
    last_save.status = "ok" =>
        \A k \in DOMAIN persisted :
            k # last_save.key =>
                /\ k \in DOMAIN _load_states(last_save.pre).value.map
                /\ persisted[k] = _load_states(last_save.pre).value.map[k]

\* A successful save has replaced the row of its key and the file holds
\* another key with a different row.
C25_Witness ==
    /\ last_save.status = "ok"
    /\ last_save.key \in DOMAIN persisted
    /\ last_save.key \in DOMAIN last_save.prev.map
    /\ last_save.prev.map[last_save.key] # persisted[last_save.key]
    /\ \E k \in DOMAIN persisted : k # last_save.key /\ persisted[k] # persisted[last_save.key]

====
